---- MODULE Spec2Model ----
(***************************************************************************)
(* Model of haystack/backends/solr_backend.py: the Solr SearchBackend      *)
(* (update, remove, clear, search, more_like_this, _process_results) and   *)
(* the Solr SearchQuery (build_query_fragment, build_facet_field, run,     *)
(* run_mlt, post_process_facets).                                          *)
(*                                                                         *)
(* Text that the code computes (query clauses, delete queries, gap         *)
(* strings, facet keys) is modelled as a sequence of one-character         *)
(* strings, so that joining, splitting, formatting and the substring test  *)
(* ' ' in value are computed, not assumed.  Parameter names of the         *)
(* outbound request are atomic strings.                                    *)
(*                                                                         *)
(* Every public operation is one synchronous call: an action fires from    *)
(* pc = "idle", performs the whole handler and leaves its transport calls, *)
(* log lines and outcome in calls / log / ret; Return takes the caller     *)
(* back to "idle".                                                         *)
(*                                                                         *)
(* Two objects outlive a call: query holds the fields a SearchQuery stores *)
(* when it runs (_results, _hit_count, _facet_counts,                      *)
(* _spelling_suggestion), and caller holds a narrow_queries set that one   *)
(* caller keeps and passes to search, next to the clauses that caller put  *)
(* into it.                                                                *)
(***************************************************************************)
EXTENDS Integers, Sequences, FiniteSets, TLC

VARIABLES pc, op, calls, log, ret, query, caller

vars == <<pc, op, calls, log, ret, query, caller>>

(***************************************************************************)
(* Bounds of the model.                                                    *)
(***************************************************************************)
MaxObjs == 3

MaxModels == 2

MaxStrLen == 2

MaxSeqLen == 2

MaxPath == 2

MaxDocs == 3

MaxHits == 4

MaxOptions == 2

MaxOffset == 2

MaxGapAmount == 3

\* Fields of a query state that differ from a new query's.
MaxQueryOptions == 2

(***************************************************************************)
(* Text helpers (Python str operations).                                   *)
(***************************************************************************)
RECURSIVE Str(_)
Str(s) == IF s = <<>> THEN "" ELSE Head(s) \o Str(Tail(s))

RECURSIVE Join(_, _)
Join(parts, sep) ==
    IF parts = <<>> THEN <<>>
    ELSE IF Len(parts) = 1 THEN parts[1]
    ELSE parts[1] \o sep \o Join(Tail(parts), sep)

RECURSIVE Split(_, _)
Split(s, c) ==
    IF \A i \in 1..Len(s) : s[i] # c THEN <<s>>
    ELSE LET k == CHOOSE i \in 1..Len(s) : s[i] = c /\ \A j \in 1..(i - 1) : s[j] # c
         IN <<SubSeq(s, 1, k - 1)>> \o Split(SubSeq(s, k + 1, Len(s)), c)

Contains(s, c) == \E i \in 1..Len(s) : s[i] = c

Digit(d) == <<"0", "1", "2", "3", "4", "5", "6", "7", "8", "9">>[d + 1]

RECURSIVE Decimal(_)
Decimal(n) ==
    IF n < 0 THEN <<"-">> \o Decimal(0 - n)
    ELSE IF n < 10 THEN <<Digit(n)>>
    ELSE Decimal(n \div 10) \o <<Digit(n % 10)>>

(***************************************************************************)
(* Constants of the program.                                               *)
(***************************************************************************)
DJANGO_CT == <<"d", "j", "a", "n", "g", "o", "_", "c", "t">>

MATCH_ALL == <<"*", ":", "*">>

T_OR == <<" ", "O", "R", " ">>

T_true == <<"t", "r", "u", "e">>

T_false == <<"f", "a", "l", "s", "e">>

T_TO_STAR == <<" ", "T", "O", " ", "*">>

T_STAR_TO == <<"*", " ", "T", "O", " ">>

T_TO == <<" ", "T", "O", " ">>

F_content == <<"c", "o", "n", "t", "e", "n", "t">>

F_text == <<"t", "e", "x", "t">>

F_tag == <<"t", "a", "g">>

F_price == <<"p", "r", "i", "c", "e">>

F_author == <<"a", "u", "t", "h", "o", "r">>

F_author_exact == <<"a", "u", "t", "h", "o", "r", "_", "e", "x", "a", "c", "t">>

T_b_c == <<"b", " ", "c">>

F_state == <<"s", "t", "a", "t", "e">>

F_city == <<"c", "i", "t", "y">>

F_zip == <<"z", "i", "p">>

F_misc == <<"m", "i", "s", "c">>

F_st == <<"s", "t">>

F_ct == <<"c", "t">>

CT_note == <<"a", "p", "p", ".", "n", "o", "t", "e">>

CT_doc == <<"a", "p", "p", ".", "d", "o", "c">>

CT_gone == <<"a", "p", "p", ".", "g", "o", "n", "e">>

CT_bad == <<"n", "o", "t", "e">>

T_fl_default == <<"*", " ", "s", "c", "o", "r", "e">>

T_200 == <<"2", "0", "0">>

T_none == <<"n", "o", "n", "e">>

T_on == <<"o", "n">>

T_day == <<"d", "a", "y">>

T_month == <<"m", "o", "n", "t", "h">>

T_tag_a == <<"t", "a", "g", ":", "a">>

T_iso_start == <<"2", "0", "1", "0", "-", "0", "1", "-", "0", "1", "T", "0", "0", ":", "0", "0", ":", "0", "0", "Z">>

T_iso_end == <<"2", "0", "1", "1", "-", "0", "1", "-", "0", "1", "T", "0", "0", ":", "0", "0", ":", "0", "0", "Z">>

T_sort == <<"t", "i", "t", "l", "e", " ", "a", "s", "c">>

T_fields == <<"i", "d", " ", "t", "i", "t", "l", "e">>

TransportErrors == {"IOError", "SolrError"}

Outcomes == {"ok"} \cup TransportErrors

(***************************************************************************)
(* The registered entity types.  A model class carries _meta.app_label     *)
(* and _meta.module_name.                                                  *)
(***************************************************************************)
note == [app_label |-> <<"a", "p", "p">>, module_name |-> <<"n", "o", "t", "e">>]

doc == [app_label |-> <<"a", "p", "p">>, module_name |-> <<"d", "o", "c">>]

InstalledModels == {note, doc}

Sites == {{}, {note}, {note, doc}}

SeqsUpTo(S, n) == UNION {[1..k -> S] : k \in 0..n}

None == [kind |-> "None"]

Some(v) == [kind |-> "some", v |-> v]

IsNone(x) == x.kind = "None"

Returned(v) == [kind |-> "return", value |-> v]

Raised(e) == [kind |-> "raise", error |-> e]

(***************************************************************************)
(* SearchBackend.clear                                                     *)
(***************************************************************************)
ClearClause(model) == DJANGO_CT \o <<":">> \o model.app_label \o <<".">> \o model.module_name

\* Variant: the optimize pass issued ahead of the delete.
clear_optimize_first(models, commit, delete_outcome, optimize_outcome) ==
    LET models_to_delete == [i \in 1..Len(models) |-> ClearClause(models[i])]
        q == IF models = <<>> THEN MATCH_ALL ELSE Join(models_to_delete, T_OR)
        delete_call == [conn |-> "conn", method |-> "delete", q |-> q, commit |-> commit]
        optimize_call == [conn |-> "conn", method |-> "optimize"]
    IN [calls |-> <<optimize_call, delete_call>>,
        log |-> IF delete_outcome # "ok" \/ optimize_outcome # "ok"
                THEN <<[msg |-> "Failed to clear Solr index"]>> ELSE <<>>,
        ret |-> Returned(None)]

clear(models, commit, delete_outcome, optimize_outcome) ==
    LET models_to_delete == [i \in 1..Len(models) |-> ClearClause(models[i])]
        q == IF models = <<>> THEN MATCH_ALL ELSE Join(models_to_delete, T_OR)
        delete_call == [conn |-> "conn", method |-> "delete", q |-> q, commit |-> commit]
        optimize_call == [conn |-> "conn", method |-> "optimize"]
        failure == IF Len(models) # 0
                   THEN [msg |-> "Failed to clear Solr index of models",
                         models |-> Join(models_to_delete, <<",">>)]
                   ELSE [msg |-> "Failed to clear Solr index"]
    IN IF delete_outcome # "ok"
       THEN [calls |-> <<delete_call>>, log |-> <<failure>>, ret |-> Returned(None)]
       ELSE IF optimize_outcome # "ok"
       THEN [calls |-> <<delete_call, optimize_call>>, log |-> <<failure>>, ret |-> Returned(None)]
       ELSE [calls |-> <<delete_call, optimize_call>>, log |-> <<>>, ret |-> Returned(None)]

(***************************************************************************)
(* SearchBackend.update.  An object of the iterable is prepared by         *)
(* index.full_prepare, which returns its document or raises.               *)
(***************************************************************************)
PrepareOutcomes == {"ok", "UnicodeDecodeError", "ValueError"}

Objects == [id : 1..MaxObjs, prepare : PrepareOutcomes]

Iterables == {it \in SeqsUpTo(Objects, MaxObjs) : \A i \in 1..Len(it) : it[i].id = i}

full_prepare(obj) == [id |-> obj.id]

\* The for loop inside the try block: docs gathered until an object raises.
RECURSIVE PrepareLoop(_, _)
PrepareLoop(iterable, docs) ==
    IF iterable = <<>> THEN [docs |-> docs, raised |-> "none"]
    ELSE IF Head(iterable).prepare = "ok"
    THEN PrepareLoop(Tail(iterable), Append(docs, full_prepare(Head(iterable))))
    ELSE [docs |-> docs, raised |-> Head(iterable).prepare]

update(iterable, commit, add_outcome) ==
    LET loop == PrepareLoop(iterable, <<>>)
        docs == loop.docs
        chunk == IF loop.raised = "UnicodeDecodeError"
                 THEN <<[stream |-> "stderr", msg |-> "Chunk failed."]>> ELSE <<>>
        add_call == [conn |-> "conn", method |-> "add", docs |-> docs, commit |-> commit,
                     boost |-> "field_weights"]
    IN IF loop.raised \notin {"none", "UnicodeDecodeError"}
       THEN [calls |-> <<>>, log |-> <<>>, ret |-> Raised(loop.raised)]
       ELSE IF Len(docs) > 0
       THEN [calls |-> <<add_call>>,
             log |-> IF add_outcome # "ok"
                     THEN Append(chunk, [msg |-> "Failed to add documents to Solr", e |-> add_outcome])
                     ELSE chunk,
             ret |-> Returned(None)]
       ELSE [calls |-> <<>>, log |-> chunk, ret |-> Returned(None)]

(***************************************************************************)
(* SearchBackend.remove                                                    *)
(***************************************************************************)
get_identifier(obj_or_string) ==
    IF obj_or_string.kind = "string" THEN obj_or_string.text
    ELSE obj_or_string.model.app_label \o <<".">> \o obj_or_string.model.module_name
         \o <<".">> \o Decimal(obj_or_string.pk)

Removables ==
    {[kind |-> "string", text |-> <<"a", "p", "p", ".", "n", "o", "t", "e", ".", "1">>]}
    \cup [kind : {"object"}, model : InstalledModels, pk : 1..MaxObjs]

remove(obj_or_string, commit, delete_outcome) ==
    LET solr_id == get_identifier(obj_or_string)
        delete_call == [conn |-> "conn", method |-> "delete", id |-> solr_id, commit |-> commit]
    IN [calls |-> <<delete_call>>,
        log |-> IF delete_outcome # "ok"
                THEN <<[msg |-> "Failed to remove document from Solr", id |-> solr_id,
                        e |-> delete_outcome]>>
                ELSE <<>>,
        ret |-> Returned(None)]

(***************************************************************************)
(* SearchQuery.build_query_fragment.  A Python value is a record: a str    *)
(* carries its text, a bool or an int its value, a list, a tuple or a      *)
(* ValuesListQuerySet its items.                                           *)
(***************************************************************************)
PyStr(t) == [kind |-> "str", text |-> t]

PyInt(n) == [kind |-> "int", n |-> n]

IsSequence(value) == value.kind \in {"list", "tuple"}

\* pysolr's Solr._from_python: the Solr literal of a native value.
from_python(value) ==
    CASE value.kind = "str" -> value
      [] value.kind = "bool" -> PyStr(IF value.b THEN T_true ELSE T_false)
      [] value.kind = "int" -> PyStr(Decimal(value.n))
      [] value.kind = "datetime" -> PyStr(value.iso)

\* repr() of a str or an int (the texts of the model hold no quote and no backslash).
Repr(value) ==
    CASE value.kind = "str" -> <<"'">> \o value.text \o <<"'">>
      [] value.kind = "int" -> Decimal(value.n)

\* '%s' % value: str() of a str, an int, a list or a tuple.
FormatS(value) ==
    CASE value.kind = "str" -> value.text
      [] value.kind = "int" -> Decimal(value.n)
      [] value.kind = "list" -> <<"[">> \o Join([i \in 1..Len(value.items) |-> Repr(value.items[i])], <<",", " ">>) \o <<"]">>
      [] value.kind = "tuple" ->
            IF Len(value.items) = 1 THEN <<"(">> \o Repr(value.items[1]) \o <<",", ")">>
            ELSE <<"(">> \o Join([i \in 1..Len(value.items) |-> Repr(value.items[i])], <<",", " ">>) \o <<")">>

\* ' ' in value: a substring test on a str, a membership test on a list or tuple.
HasSpace(value) ==
    IF value.kind = "str" THEN Contains(value.text, " ")
    ELSE \E i \in 1..Len(value.items) : value.items[i] = PyStr(<<" ">>)

\* '"%s"' % value: a tuple on the right of % is the argument tuple itself.
QuoteFormat(value) ==
    IF value.kind = "tuple"
    THEN IF Len(value.items) = 1
         THEN Returned(PyStr(<<"\"">> \o FormatS(value.items[1]) \o <<"\"">>))
         ELSE Raised("TypeError")
    ELSE Returned(PyStr(<<"\"">> \o FormatS(value) \o <<"\"">>))

\* Iterating a value: the characters of a str, the items of a list or tuple.
Elements(value) ==
    IF value.kind = "str" THEN [i \in 1..Len(value.text) |-> PyStr(<<value.text[i]>>)]
    ELSE value.items

\* SearchSite.get_index_fieldname: the physical name of a logical field.
get_index_fieldname(field) ==
    CASE field = F_content -> F_text
      [] field = F_author -> F_author_exact
      [] OTHER -> field

filter_types(filter_type, index_fieldname, value) ==
    CASE filter_type = "exact" -> index_fieldname \o <<":">> \o value
      [] filter_type = "gt" -> index_fieldname \o <<":", "{">> \o value \o T_TO_STAR \o <<"}">>
      [] filter_type = "gte" -> index_fieldname \o <<":", "[">> \o value \o T_TO_STAR \o <<"]">>
      [] filter_type = "lt" -> index_fieldname \o <<":", "{">> \o T_STAR_TO \o value \o <<"}">>
      [] filter_type = "lte" -> index_fieldname \o <<":", "[">> \o T_STAR_TO \o value \o <<"]">>
      [] filter_type = "startswith" -> index_fieldname \o <<":">> \o value \o <<"*">>

FilterTypeKeys == {"exact", "gt", "gte", "lt", "lte", "startswith"}

InOption(index_fieldname, possible_value) ==
    index_fieldname \o <<":", "\"">> \o from_python(possible_value).text \o <<"\"">>

\* Variant: an operator missing from the table compiles as 'exact'.
BuildClause_defaults_to_exact(field, filter_type, value) ==
    LET index_fieldname == get_index_fieldname(field)
    IN IF field = F_content THEN Returned(value)
       ELSE IF filter_type = "in"
       THEN LET elems == Elements(value)
                in_options == [i \in 1..Len(elems) |-> InOption(index_fieldname, elems[i])]
            IN Returned(PyStr(<<"(">> \o Join(in_options, T_OR) \o <<")">>))
       ELSE IF filter_type = "range"
       THEN LET elems == Elements(value)
            IN IF Len(elems) < 2 THEN Raised("IndexError")
               ELSE Returned(PyStr(index_fieldname \o <<":", "[">> \o from_python(elems[1]).text
                                   \o T_TO \o from_python(elems[2]).text \o <<"]">>))
       ELSE IF filter_type \notin FilterTypeKeys
       THEN Returned(PyStr(filter_types("exact", index_fieldname, FormatS(value))))
       ELSE Returned(PyStr(filter_types(filter_type, index_fieldname, FormatS(value))))

\* The part of build_query_fragment after the quoting step.
BuildClause(field, filter_type, value) ==
    LET index_fieldname == get_index_fieldname(field)
    IN IF field = F_content THEN Returned(value)
       ELSE IF filter_type = "in"
       THEN LET elems == Elements(value)
                in_options == [i \in 1..Len(elems) |-> InOption(index_fieldname, elems[i])]
            IN Returned(PyStr(<<"(">> \o Join(in_options, T_OR) \o <<")">>))
       ELSE IF filter_type = "range"
       THEN LET elems == Elements(value)
            IN IF Len(elems) < 2 THEN Raised("IndexError")
               ELSE Returned(PyStr(index_fieldname \o <<":", "[">> \o from_python(elems[1]).text
                                   \o T_TO \o from_python(elems[2]).text \o <<"]">>))
       ELSE IF filter_type \notin FilterTypeKeys THEN Raised("KeyError")
       ELSE Returned(PyStr(filter_types(filter_type, index_fieldname, FormatS(value))))

build_query_fragment(field, filter_type, value) ==
    LET listed == IF value.kind = "values_list" THEN [kind |-> "list", items |-> value.items]
                  ELSE value
        encoded == IF ~IsSequence(listed) THEN from_python(listed) ELSE listed
        quoted == IF HasSpace(encoded) THEN QuoteFormat(encoded) ELSE Returned(encoded)
    IN IF quoted.kind = "raise" THEN quoted
       ELSE BuildClause(field, filter_type, quoted.value)

\* The inputs of build_query_fragment.
Fields == {F_content, F_tag, F_price, F_author}

FilterTypes == FilterTypeKeys \cup {"in", "range", "contains", "endswith"}

Texts == SeqsUpTo({"a", " "}, MaxStrLen) \cup {T_b_c}

Scalars == {PyStr(t) : t \in Texts} \cup {PyInt(10)} \cup [kind : {"bool"}, b : BOOLEAN]

Items == {PyStr(<<"a">>), PyStr(<<" ">>), PyStr(T_b_c), PyInt(10)}

Values == Scalars \cup [kind : {"list", "tuple", "values_list"}, items : SeqsUpTo(Items, MaxSeqLen)]

(***************************************************************************)
(* SearchQuery.post_process_facets.  A dict is modelled by the sequence of *)
(* its (key, value) items in iteration order; the rewritten dict is a      *)
(* function from key to value, a later item replacing an earlier one with  *)
(* the same rewritten key.                                                 *)
(***************************************************************************)
\* site.all_searchfields(): the fields by physical name; a facet field
\* carries get_facet_for_name, a plain field does not.
field_data ==
    (F_state :> [facet_for_name |-> F_st]) @@ (F_city :> [facet_for_name |-> F_ct])
    @@ (F_zip :> [plain |-> TRUE])

HasFacetName(f) == f \in DOMAIN field_data /\ "facet_for_name" \in DOMAIN field_data[f]

RECURSIVE FacetNames(_)
FacetNames(field) ==
    IF field = <<>> THEN <<>>
    ELSE (IF HasFacetName(Head(field)) THEN <<field_data[Head(field)].facet_for_name>> ELSE <<>>)
         \o FacetNames(Tail(field))

RewriteKey(facet_type, key) ==
    LET field == IF facet_type = "pivots" THEN Split(key, ",") ELSE <<key>>
        fieldname == FacetNames(field)
    IN IF Len(fieldname) = 0 THEN field[1] ELSE Join(fieldname, <<",">>)

RECURSIVE RewriteItems(_, _, _)
RewriteItems(facet_type, items, temp_facets) ==
    IF items = <<>> THEN temp_facets
    ELSE RewriteItems(facet_type, Tail(items),
                      [k \in DOMAIN temp_facets \cup {RewriteKey(facet_type, Head(items)[1])} |->
                          IF k = RewriteKey(facet_type, Head(items)[1]) THEN Head(items)[2]
                          ELSE temp_facets[k]])

post_process_facets(results) ==
    IF "facets" \notin DOMAIN results THEN <<>>
    ELSE [facet_type \in DOMAIN results.facets |->
             RewriteItems(facet_type, results.facets[facet_type], <<>>)]

\* The inputs of post_process_facets.
PivotPaths == {Join(path, <<",">>) : path \in SeqsUpTo({F_state, F_city, F_zip}, MaxPath) \ {<<>>}}

PivotValue(i) == <<<<<<"v">>, i, <<>>>>>>

PivotItems ==
    {<<>>} \cup {<<<<p, PivotValue(1)>>>> : p \in PivotPaths}
    \cup {<<<<pq[1], PivotValue(1)>>, <<pq[2], PivotValue(2)>>>> :
             pq \in {x \in PivotPaths \X PivotPaths : x[1] # x[2]}}

FlatItems == {<<>>} \cup {<<<<f, <<<<"l", 1>>>>>>>> : f \in {F_state, F_zip, F_misc}}

FacetResults ==
    {[results |-> <<>>, hits |-> 0]}
    \cup {[results |-> <<>>, hits |-> 0,
           facets |-> [fields |-> f, dates |-> d, queries |-> <<>>, pivots |-> p]] :
          f \in FlatItems, d \in {<<>>}, p \in PivotItems}
    \cup {[results |-> <<>>, hits |-> 0,
           facets |-> [fields |-> <<>>, dates |-> f, queries |-> f, pivots |-> <<>>]] :
          f \in FlatItems}

(***************************************************************************)
(* SearchBackend._process_results.  A raw response carries hits and docs   *)
(* and, optionally, facets, spellcheck and highlighting; a raw document is *)
(* a mapping from field name to raw value.                                 *)
(***************************************************************************)
\* haystack.backends.EmptyResults: the response substituted for a failed query.
EmptyResults == [hits |-> 0, docs |-> <<>>]

\* django get_model: the installed model class of (app_label, model_name), or None.
get_model(app_label, model_name) ==
    IF \E m \in InstalledModels : m.app_label = app_label /\ m.module_name = model_name
    THEN CHOOSE m \in InstalledModels : m.app_label = app_label /\ m.module_name = model_name
    ELSE None

\* pysolr's Solr._to_python: the native value of a Solr literal.
to_python(value) ==
    IF value.kind = "str" /\ value.text = T_true THEN [kind |-> "bool", b |-> TRUE]
    ELSE IF value.kind = "str" /\ value.text = T_false THEN [kind |-> "bool", b |-> FALSE]
    ELSE value

\* index.fields of every index: the declared fields, each with a convert method.
IndexFields == {"title"}

ConvertField(string_key, value) ==
    IF string_key \in IndexFields THEN value ELSE to_python(value)

\* zip(a[::2], a[1::2])
RECURSIVE Pairs(_)
Pairs(a) == IF Len(a) < 2 THEN <<>> ELSE <<<<a[1], a[2]>>>> \o Pairs(SubSeq(a, 3, Len(a)))

RECURSIVE process_pivot(_)
process_pivot(pivot) ==
    IF pivot = <<>> THEN <<>>
    ELSE LET p == Head(pivot)
         IN <<IF "pivot" \notin DOMAIN p THEN <<FormatS(p.value), p.count, <<>>>>
              ELSE <<FormatS(p.value), p.count, process_pivot(p.pivot)>>>>
            \o process_pivot(Tail(pivot))

DictGet(d, key) == IF key \in DOMAIN d THEN d[key] ELSE <<>>

ProcessFacets(raw_facets) ==
    LET fields == DictGet(raw_facets, "facet_fields")
        pivots == DictGet(raw_facets, "facet_pivot")
    IN [fields |-> [i \in 1..Len(fields) |-> <<fields[i][1], Pairs(fields[i][2])>>],
        dates |-> DictGet(raw_facets, "facet_dates"),
        queries |-> DictGet(raw_facets, "facet_queries"),
        pivots |-> [i \in 1..Len(pivots) |-> <<pivots[i][1], process_pivot(pivots[i][2])>>]]

SpellingSuggestion(raw_results, include_spelling) ==
    IF include_spelling /\ "spellcheck" \in DOMAIN raw_results
       /\ Len(DictGet(raw_results.spellcheck, "suggestions")) # 0
    THEN raw_results.spellcheck.suggestions[Len(raw_results.spellcheck.suggestions)]
    ELSE None

\* result_class(app_label, model_name, pk, score, **additional_fields)
BuildResult(raw_results, raw_result, parts, result_class) ==
    LET converted == [k \in DOMAIN raw_result |-> ConvertField(k, raw_result[k])]
        kept == [k \in DOMAIN converted \ {"django_ct", "django_id", "score"} |-> converted[k]]
        highlighting == DictGet(raw_results, "highlighting")
        additional_fields ==
            IF raw_result.id \in DOMAIN highlighting
            THEN [k \in DOMAIN kept \cup {"highlighted"} |->
                     IF k = "highlighted" THEN highlighting[raw_result.id] ELSE kept[k]]
            ELSE kept
    IN [class |-> result_class, app_label |-> parts[1], model_name |-> parts[2],
        pk |-> DictGet(raw_result, "django_id"), score |-> DictGet(raw_result, "score"),
        additional_fields |-> additional_fields]

\* Variant: a skipped document leaves the hit count as the engine reported it.
RECURSIVE DocsLoop_keeps_hits(_, _, _, _, _, _)
DocsLoop_keeps_hits(raw_results, docs, indexed_models, result_class, results, hits) ==
    IF docs = <<>> THEN Returned([results |-> results, hits |-> hits])
    ELSE LET raw_result == Head(docs)
             parts == Split(raw_result.django_ct.text, ".")
         IN IF Len(parts) # 2 THEN Raised("ValueError")
            ELSE LET model == get_model(parts[1], parts[2])
                 IN IF model # None /\ model \in indexed_models
                    THEN DocsLoop_keeps_hits(raw_results, Tail(docs), indexed_models, result_class,
                                             Append(results, BuildResult(raw_results, raw_result,
                                                                         parts, result_class)),
                                             hits)
                    ELSE DocsLoop_keeps_hits(raw_results, Tail(docs), indexed_models, result_class,
                                             results, hits)

\* The loop over raw_results.docs.
RECURSIVE DocsLoop(_, _, _, _, _, _)
DocsLoop(raw_results, docs, indexed_models, result_class, results, hits) ==
    IF docs = <<>> THEN Returned([results |-> results, hits |-> hits])
    ELSE LET raw_result == Head(docs)
             parts == Split(raw_result.django_ct.text, ".")
         IN IF Len(parts) # 2 THEN Raised("ValueError")
            ELSE LET model == get_model(parts[1], parts[2])
                 IN IF model # None /\ model \in indexed_models
                    THEN DocsLoop(raw_results, Tail(docs), indexed_models, result_class,
                                  Append(results, BuildResult(raw_results, raw_result, parts,
                                                              result_class)),
                                  hits)
                    ELSE DocsLoop(raw_results, Tail(docs), indexed_models, result_class,
                                  results, hits - 1)

process_results(raw_results, result_class, indexed_models, include_spelling) ==
    LET class == IF result_class = None THEN "SearchResult" ELSE result_class.name
        facets == IF "facets" \in DOMAIN raw_results THEN ProcessFacets(raw_results.facets)
                  ELSE <<>>
        loop == DocsLoop(raw_results, raw_results.docs, indexed_models, class, <<>>,
                         raw_results.hits)
    IN IF loop.kind = "raise" THEN loop
       ELSE Returned([results |-> loop.value.results,
                      hits |-> loop.value.hits,
                      facets |-> facets,
                      spelling_suggestion |-> SpellingSuggestion(raw_results, include_spelling)])

\* The raw responses of the engine.
DocId(i) == PyStr(<<"d", Digit(i)>>)

RawDoc(i, ct) ==
    [id |-> DocId(i), django_ct |-> PyStr(ct), django_id |-> PyInt(i), score |-> PyInt(i),
     title |-> PyStr(<<"a">>), flag |-> PyStr(T_true)]

ContentTypes == {CT_note, CT_doc, CT_gone, CT_bad}

DocLists == {[i \in 1..Len(cts) |-> RawDoc(i, cts[i])] : cts \in SeqsUpTo(ContentTypes, MaxDocs)}

RawPivot ==
    <<[value |-> PyStr(<<"a">>), count |-> 2, pivot |-> <<[value |-> PyInt(10), count |-> 1]>>],
      [value |-> PyStr(<<" ">>), count |-> 0]>>

RawFacetBlocks ==
    {<<>>,
     [facet_fields |-> <<<<F_state, <<"x", 2, "y", 1>>>>, <<F_zip, <<"x", 2, "y">>>>>>,
      facet_dates |-> <<>>, facet_queries |-> <<>>, facet_pivot |-> <<>>],
     [facet_fields |-> <<>>, facet_dates |-> <<<<F_zip, <<"d", 1>>>>>>,
      facet_queries |-> <<<<F_misc, 3>>>>,
      facet_pivot |-> <<<<Join(<<F_state, F_city>>, <<",">>), RawPivot>>>>]}

RawResponses ==
    {[hits |-> hits, docs |-> docs] : hits \in 0..MaxHits, docs \in DocLists}
    \cup {[hits |-> Len(docs), docs |-> docs, facets |-> f] :
          docs \in {d \in DocLists : Len(d) <= 1}, f \in RawFacetBlocks}
    \cup {[hits |-> Len(docs), docs |-> docs, spellcheck |-> sp] :
          docs \in {d \in DocLists : Len(d) <= 1},
          sp \in {<<>>, [suggestions |-> <<>>], [suggestions |-> <<"a", <<"collation", "b">>>>]}}
    \cup {[hits |-> Len(docs), docs |-> docs, highlighting |-> hl] :
          docs \in {d \in DocLists : Len(d) <= 2},
          hl \in {DocId(1) :> <<"<em>a</em>">>, DocId(2) :> <<"<em>a</em>">>}}

ResultClasses == {None, [kind |-> "class", name |-> "CustomResult"]}

(***************************************************************************)
(* SearchBackend.search.  The arguments and the settings read by the call  *)
(* are one mapping a from name to value; an optional argument is None or   *)
(* Some(value).  kwargs, the parameters of the outbound request, is a      *)
(* mapping from parameter name to value.                                   *)
(***************************************************************************)
DISMAX_PARAMETERS ==
    {"defType", "qf", "q.alt", "mm", "pf", "ps", "qs", "tie", "bq", "bf", "boost"}

DictUpdate(d, e) == [x \in DOMAIN d \cup DOMAIN e |-> IF x \in DOMAIN e THEN e[x] ELSE d[x]]

LowerCase == <<"a", "b", "c", "d", "e", "f", "g", "h", "i", "j", "k", "l", "m",
               "n", "o", "p", "q", "r", "s", "t", "u", "v", "w", "x", "y", "z">>

UpperCase == <<"A", "B", "C", "D", "E", "F", "G", "H", "I", "J", "K", "L", "M",
               "N", "O", "P", "Q", "R", "S", "T", "U", "V", "W", "X", "Y", "Z">>

UpperChar(c) ==
    IF \E i \in 1..Len(LowerCase) : LowerCase[i] = c
    THEN UpperCase[CHOOSE i \in 1..Len(LowerCase) : LowerCase[i] = c]
    ELSE c

\* str.upper()
upper(t) == [i \in 1..Len(t) |-> UpperChar(t[i])]

\* Variant: the unit after the slash pluralised as well.
GapParameter_plural_unit(value) ==
    LET gap_by_string == upper(value.gap_by)
        gap_string == Decimal(value.gap_amount) \o gap_by_string
        plural == IF value.gap_amount # 1 THEN gap_string \o <<"S">> ELSE gap_string
    IN <<"+">> \o plural \o <<"/">> \o gap_by_string
       \o (IF value.gap_amount # 1 THEN <<"S">> ELSE <<>>)

\* The gap parameter of one date facet.
GapParameter(value) ==
    LET gap_by_string == upper(value.gap_by)
        gap_string == Decimal(value.gap_amount) \o gap_by_string
        plural == IF value.gap_amount # 1 THEN gap_string \o <<"S">> ELSE gap_string
    IN <<"+">> \o plural \o <<"/">> \o gap_by_string

\* kwargs is built by assignments in program order: each is a pair
\* <<parameter name, value>>, and a later assignment of a name replaces an
\* earlier one.
Assign(key, v) == <<<<key, v>>>>

RECURSIVE DateFacetParameters(_)
DateFacetParameters(items) ==
    IF items = <<>> THEN <<>>
    ELSE LET key == Head(items)[1]
             value == Head(items)[2]
         IN Assign("f." \o key \o ".facet.date.start", from_python(value.start_date).text)
            \o Assign("f." \o key \o ".facet.date.end", from_python(value.end_date).text)
            \o Assign("f." \o key \o ".facet.date.gap", GapParameter(value))
            \o DateFacetParameters(Tail(items))

FieldLimitParameters(items) ==
    [i \in 1..Len(items) |-> <<"f." \o items[i][1] \o ".facet.limit", items[i][2]>>]

\* dict(assignments)
Assigned(assignments) ==
    [key \in {assignments[i][1] : i \in DOMAIN assignments} |->
        LET last == CHOOSE i \in DOMAIN assignments :
                       /\ assignments[i][1] = key
                       /\ \A j \in DOMAIN assignments : assignments[j][1] = key => j <= i
        IN assignments[last][2]]

Keys(items) == [i \in 1..Len(items) |-> items[i][1]]

QueryFacet(pair) == pair[1] \o <<":">> \o pair[2]

\* BaseSearchBackend.build_registered_models_list: "app_label.module_name" per indexed model.
build_registered_models_list(indexed_models) ==
    [i \in 1..Len(indexed_models) |->
        indexed_models[i].app_label \o <<".">> \o indexed_models[i].module_name]

RegisteredClause(registered_models) ==
    DJANGO_CT \o <<":", "(">> \o Join(registered_models, T_OR) \o <<")">>

LimitToRegistered(a) ==
    IF IsNone(a.limit_to_registered_models) THEN a.limit_setting
    ELSE a.limit_to_registered_models.v

\* narrow_queries as the call leaves it: None, a collection, or the error of
\* calling add on a collection that is no set.
NarrowQueries(a) ==
    LET given == a.narrow_queries
        registered_models == build_registered_models_list(a.indexed_models)
    IN IF ~LimitToRegistered(a) THEN Returned(given)
       ELSE LET narrow == IF IsNone(given) THEN Some([kind |-> "set", items |-> {}]) ELSE given
            IN IF Len(registered_models) > 0
               THEN IF narrow.v.kind # "set" THEN Raised("AttributeError")
                    ELSE Returned(Some([kind |-> "set",
                                        items |-> narrow.v.items
                                                  \cup {RegisteredClause(registered_models)}]))
               ELSE Returned(narrow)

\* list(narrow_queries): the items in some iteration order.
Listings(collection) ==
    IF collection.kind = "list" THEN {collection.items}
    ELSE {l \in [1..Cardinality(collection.items) -> collection.items] :
             \A i, j \in DOMAIN l : i # j => l[i] # l[j]}

BuildKwargs(a, fq) ==
    LET facet_on == Assign("facet", T_on)
        assignments ==
            Assign("fl", T_fl_default)
            \o (IF a.fields # <<>> THEN Assign("fl", a.fields) ELSE <<>>)
            \o (IF ~IsNone(a.sort_by) THEN Assign("sort", a.sort_by.v) ELSE <<>>)
            \o (IF ~IsNone(a.start_offset) THEN Assign("start", a.start_offset.v) ELSE <<>>)
            \o (IF ~IsNone(a.end_offset)
                THEN Assign("rows", a.end_offset.v - a.start_offset.v) ELSE <<>>)
            \o (IF a.highlight THEN Assign("hl", T_true) \o Assign("hl.fragsize", T_200)
                ELSE <<>>)
            \o (IF a.include_spelling
                THEN Assign("spellcheck", T_true) \o Assign("spellcheck.collate", T_true)
                     \o Assign("spellcheck.count", 1)
                     \o (IF ~IsNone(a.spelling_query) /\ a.spelling_query.v # <<>>
                         THEN Assign("spellcheck.q", a.spelling_query.v) ELSE <<>>)
                ELSE <<>>)
            \o (IF ~IsNone(a.facets) THEN facet_on \o Assign("facet.field", a.facets.v)
                ELSE <<>>)
            \o (IF ~IsNone(a.facet_mincount)
                THEN facet_on \o Assign("facet.mincount", a.facet_mincount.v) ELSE <<>>)
            \o (IF ~IsNone(a.facet_limit)
                THEN facet_on \o Assign("facet.limit", a.facet_limit.v) ELSE <<>>)
            \o (IF ~IsNone(a.facet_field_limit)
                THEN facet_on \o FieldLimitParameters(a.facet_field_limit.v) ELSE <<>>)
            \o (IF ~IsNone(a.facet_prefix)
                THEN facet_on \o Assign("facet.prefix", a.facet_prefix.v) ELSE <<>>)
            \o (IF ~IsNone(a.facet_sort)
                THEN facet_on \o Assign("facet.sort", a.facet_sort.v) ELSE <<>>)
            \o (IF ~IsNone(a.date_facets)
                THEN facet_on \o Assign("facet.date", Keys(a.date_facets.v))
                     \o Assign("facet.date.other", T_none)
                     \o DateFacetParameters(a.date_facets.v)
                ELSE <<>>)
            \o (IF ~IsNone(a.query_facets)
                THEN facet_on
                     \o Assign("facet.query",
                               [i \in 1..Len(a.query_facets.v) |-> QueryFacet(a.query_facets.v[i])])
                ELSE <<>>)
            \o (IF ~IsNone(a.pivot_facets)
                THEN facet_on \o Assign("facet.pivot", a.pivot_facets.v) ELSE <<>>)
            \o (IF ~IsNone(a.facet_pivot_mincount)
                THEN facet_on \o Assign("facet.pivot_mincount", a.facet_pivot_mincount.v)
                ELSE <<>>)
            \o (IF ~IsNone(fq) THEN Assign("fq", fq.v) ELSE <<>>)
        kwargs == Assigned(assignments)
    IN IF ~IsNone(a.dismax) THEN DictUpdate(kwargs, a.dismax.v) ELSE kwargs

\* Variant: only IOError is caught around the transport call.
SearchBody_catches_io_only(query_string, a, fq, transport) ==
    IF ~IsNone(a.end_offset) /\ IsNone(a.start_offset)
    THEN [calls |-> <<>>, log |-> <<>>, ret |-> Raised("TypeError")]
    ELSE IF NarrowQueries(a).kind = "raise"
    THEN [calls |-> <<>>, log |-> <<>>, ret |-> NarrowQueries(a)]
    ELSE LET kwargs == BuildKwargs(a, fq)
             search_call == [conn |-> "conn_slave", method |-> "search",
                             q |-> query_string, kwargs |-> kwargs]
         IN IF transport.outcome = "SolrError"
            THEN [calls |-> <<search_call>>, log |-> <<>>, ret |-> Raised("SolrError")]
            ELSE [calls |-> <<search_call>>,
                  log |-> IF transport.outcome = "IOError"
                          THEN <<[msg |-> "Failed to query Solr", q |-> query_string,
                                  e |-> transport.outcome]>>
                          ELSE <<>>,
                  ret |-> process_results(IF transport.outcome = "IOError" THEN EmptyResults
                                          ELSE transport.raw,
                                          a.result_class,
                                          {a.indexed_models[i] : i \in DOMAIN a.indexed_models},
                                          a.include_spelling)]

\* The call of the read transport for a non-empty query and what follows it.
SearchBody(query_string, a, fq, transport) ==
    IF ~IsNone(a.end_offset) /\ IsNone(a.start_offset)
    THEN [calls |-> <<>>, log |-> <<>>, ret |-> Raised("TypeError")]
    ELSE IF NarrowQueries(a).kind = "raise"
    THEN [calls |-> <<>>, log |-> <<>>, ret |-> NarrowQueries(a)]
    ELSE LET kwargs == BuildKwargs(a, fq)
             search_call == [conn |-> "conn_slave", method |-> "search",
                             q |-> query_string, kwargs |-> kwargs]
             failed == transport.outcome \in TransportErrors
             raw_results == IF failed THEN EmptyResults ELSE transport.raw
         IN [calls |-> <<search_call>>,
             log |-> IF failed
                     THEN <<[msg |-> "Failed to query Solr", q |-> query_string,
                             e |-> transport.outcome]>>
                     ELSE <<>>,
             ret |-> process_results(raw_results, a.result_class,
                                     {a.indexed_models[i] : i \in DOMAIN a.indexed_models},
                                     a.include_spelling)]

\* Variant: an empty query string is sent to the engine like any other.
search_queries_anyway(query_string, a, fq, transport) ==
    IF Len(query_string) = 0
    THEN [calls |-> <<[conn |-> "conn_slave", method |-> "search", q |-> query_string,
                       kwargs |-> BuildKwargs(a, None)]>>,
          log |-> <<>>,
          ret |-> process_results(EmptyResults, a.result_class, {}, a.include_spelling)]
    ELSE SearchBody(query_string, a, fq, transport)

search(query_string, a, fq, transport) ==
    IF Len(query_string) = 0
    THEN [calls |-> <<>>, log |-> <<>>, ret |-> Returned([results |-> <<>>, hits |-> 0])]
    ELSE SearchBody(query_string, a, fq, transport)

\* The inputs of search: the defaults of the signature and of the settings,
\* and for every name the other values a caller passes.
Default(name) ==
    CASE name = "start_offset" -> Some(0)
      [] name = "fields" -> <<>>
      [] name \in {"highlight", "include_spelling"} -> FALSE
      [] name = "limit_setting" -> TRUE
      [] name = "indexed_models" -> <<note>>
      [] OTHER -> None

DateFacet(gap_amount, gap_by) ==
    <<<<"pub_date", [start_date |-> [kind |-> "datetime", iso |-> T_iso_start],
                     end_date |-> [kind |-> "datetime", iso |-> T_iso_end],
                     gap_by |-> gap_by, gap_amount |-> gap_amount]>>>>

GapUnits == <<T_day, T_month>>

Alternatives(name) ==
    CASE name = "sort_by" -> <<Some(T_sort)>>
      [] name = "start_offset" -> <<None>> \o [i \in 1..MaxOffset |-> Some(i)]
      [] name = "end_offset" -> [i \in 1..(MaxOffset + 1) |-> Some(i - 1)]
      [] name = "fields" -> <<T_fields>>
      [] name \in {"highlight", "include_spelling"} -> <<TRUE>>
      [] name = "limit_setting" -> <<FALSE>>
      [] name = "indexed_models" -> <<<<>>, <<note, doc>>, <<doc, note>>>>
      [] name = "facets" -> <<Some(<<F_state>>), Some(<<>>)>>
      [] name = "date_facets" ->
            <<Some(<<>>)>>
            \o [i \in 1..((MaxGapAmount + 1) * Len(GapUnits)) |->
                   Some(DateFacet((i - 1) \div Len(GapUnits),
                                  GapUnits[((i - 1) % Len(GapUnits)) + 1]))]
      [] name = "query_facets" -> <<Some(<<<<F_tag, <<"a">>>>>>)>>
      [] name = "pivot_facets" -> <<Some(<<Join(<<F_state, F_city>>, <<",">>)>>)>>
      [] name = "narrow_queries" ->
            <<Some([kind |-> "set", items |-> {}]), Some([kind |-> "set", items |-> {T_tag_a}]),
              Some([kind |-> "list", items |-> <<T_tag_a>>])>>
      [] name = "spelling_query" -> <<Some(<<"a">>)>>
      [] name \in {"facet_mincount", "facet_limit", "facet_pivot_mincount"} -> <<Some(1)>>
      [] name = "facet_field_limit" -> <<Some(<<<<"author", 1>>>>)>>
      [] name = "facet_prefix" -> <<Some(<<"a">>)>>
      [] name = "facet_sort" -> <<Some(<<"c", "o", "u", "n", "t">>)>>
      [] name = "dismax" ->
            <<Some(<<>>), Some(("defType" :> <<"d", "i", "s", "m", "a", "x">>) @@ ("mm" :> 1))>>
      [] name = "limit_to_registered_models" -> <<Some(TRUE), Some(FALSE)>>
      [] name = "result_class" -> <<[kind |-> "class", name |-> "CustomResult"]>>

SearchNames ==
    {"sort_by", "start_offset", "end_offset", "fields", "highlight", "facets", "date_facets",
     "query_facets", "pivot_facets", "narrow_queries", "spelling_query", "facet_mincount",
     "facet_limit", "facet_field_limit", "facet_prefix", "facet_sort", "facet_pivot_mincount",
     "dismax", "limit_to_registered_models", "result_class",
     "include_spelling", "limit_setting", "indexed_models"}

RECURSIVE NamesUpTo(_)
NamesUpTo(n) ==
    IF n = 0 THEN {{}}
    ELSE LET smaller == NamesUpTo(n - 1)
         IN smaller \cup {sn[1] \cup {sn[2]} : sn \in smaller \X SearchNames}

Choices(names) ==
    {c \in [names -> 1..((MaxGapAmount + 1) * Len(GapUnits) + 1)] :
        \A n \in names : c[n] <= Len(Alternatives(n))}

SearchArguments(names, c) ==
    [n \in SearchNames |-> IF n \in names THEN Alternatives(n)[c[n]] ELSE Default(n)]

QueryStrings == {<<>>, <<"a">>, MATCH_ALL}

SearchRaws ==
    {[hits |-> 0, docs |-> <<>>],
     [hits |-> 5, docs |-> <<RawDoc(1, CT_note), RawDoc(2, CT_gone), RawDoc(3, CT_doc)>>]}

Transports == [outcome : TransportErrors] \cup [outcome : {"ok"}, raw : SearchRaws]

(***************************************************************************)
(* SearchBackend.more_like_this.  a carries start_offset, end_offset,      *)
(* limit_to_registered_models and result_class with the settings and the   *)
(* registry the call reads; fq is list(narrow_queries), None when the set  *)
(* is empty.                                                               *)
(***************************************************************************)
\* SearchSite.get_index: the index of a registered model; NotRegistered otherwise.
get_index(model_klass, indexed_models) ==
    IF \E i \in DOMAIN indexed_models : indexed_models[i] = model_klass
    THEN Returned([content_field |-> F_text])
    ELSE Raised("NotRegistered")

\* The local narrow_queries set of more_like_this.
MltNarrowQueries(additional_query_string, a) ==
    LET registered_models == build_registered_models_list(a.indexed_models)
    IN (IF LimitToRegistered(a) /\ Len(registered_models) > 0
        THEN {RegisteredClause(registered_models)} ELSE {})
       \cup (IF additional_query_string # <<>> THEN {additional_query_string} ELSE {})

MltParams(a, fq) ==
    Assigned(Assign("fl", <<"*", ",", "s", "c", "o", "r", "e">>)
             \o (IF ~IsNone(a.start_offset) THEN Assign("start", a.start_offset.v) ELSE <<>>)
             \o (IF ~IsNone(a.end_offset) THEN Assign("rows", a.end_offset.v) ELSE <<>>)
             \o (IF ~IsNone(fq) THEN Assign("fq", fq.v) ELSE <<>>))

more_like_this(model_instance, additional_query_string, a, fq, transport) ==
    LET index == get_index(model_instance.model, a.indexed_models)
    IN IF index.kind = "raise" THEN [calls |-> <<>>, log |-> <<>>, ret |-> index]
       ELSE LET query_text == <<"i", "d", ":">> \o get_identifier(model_instance)
                mlt_call == [conn |-> "conn_slave", method |-> "more_like_this",
                             q |-> query_text, field_name |-> index.value.content_field,
                             kwargs |-> MltParams(a, fq)]
                failed == transport.outcome \in TransportErrors
                raw_results == IF failed THEN EmptyResults ELSE transport.raw
            IN [calls |-> <<mlt_call>>,
                log |-> IF failed
                        THEN <<[msg |-> "Failed to fetch More Like This from Solr for document",
                                q |-> query_text, e |-> transport.outcome]>>
                        ELSE <<>>,
                ret |-> process_results(raw_results, a.result_class,
                                        {a.indexed_models[i] : i \in DOMAIN a.indexed_models},
                                        a.include_spelling)]

\* The inputs of more_like_this.
MltDefault(name) ==
    CASE name = "start_offset" -> Some(0)
      [] name = "include_spelling" -> FALSE
      [] name = "limit_setting" -> TRUE
      [] name = "indexed_models" -> <<note>>
      [] OTHER -> None

MltNames ==
    {"start_offset", "end_offset", "limit_to_registered_models", "result_class",
     "include_spelling", "limit_setting", "indexed_models"}

(***************************************************************************)
(* SearchQuery.build_facet_field, run and run_mlt.  q is the query state   *)
(* a run reads, with the settings and the registry of the backend it       *)
(* calls; self is the value of query, the fields a run stores.  A set of   *)
(* the query state is iterated in some order, given as a listing.          *)
(***************************************************************************)
Truthy(x) == ~IsNone(x) /\ x.v # 0

NonEmpty(x) == ~IsNone(x) /\ x.v # <<>>

build_facet_field(facet, key, ex) ==
    LET has_key == NonEmpty(key)
        has_ex == ex # <<>>
    IN IF ~(has_key \/ has_ex) THEN facet
       ELSE <<"{", "!">>
            \o (IF has_key THEN <<"k", "e", "y", "=">> \o key.v ELSE <<>>)
            \o (IF has_ex
                THEN (IF has_key THEN <<" ">> ELSE <<>>) \o <<"e", "x", "=">> \o ex
                ELSE <<>>)
            \o <<"}">> \o facet

\* The loop over list(self.facets) or list(self.pivot_facets).
RECURSIVE FacetFields(_)
FacetFields(listing) ==
    IF listing = <<>> THEN <<>>
    ELSE (IF Head(listing)[1] # <<>>
          THEN <<build_facet_field(Head(listing)[1], Head(listing)[2], Head(listing)[3])>>
          ELSE <<>>)
         \o FacetFields(Tail(listing))

\* The loop over self.order_by.
OrderBy(order_by) ==
    [i \in 1..Len(order_by) |->
        IF Head(order_by[i]) = "-"
        THEN Tail(order_by[i]) \o <<" ", "d", "e", "s", "c">>
        ELSE order_by[i] \o <<" ", "a", "s", "c">>]

\* The loop over list(self.narrow_queries).
NarrowList(listing) ==
    [i \in 1..Len(listing) |->
        IF listing[i][1] # <<>> /\ listing[i][2] # <<>>
        THEN <<"{", "!", "t", "a", "g", "=">> \o listing[i][2] \o <<"}">> \o listing[i][1]
        ELSE listing[i][1]]

\* The keyword arguments run passes to backend.search.
RunKwargs(q, spelling_query, order) ==
    Assigned(
        Assign("start_offset", Some(q.start_offset))
        \o Assign("result_class", q.result_class)
        \o (IF q.order_by # <<>>
            THEN Assign("sort_by", Some(Join(OrderBy(q.order_by), <<",", " ">>))) ELSE <<>>)
        \o (IF ~IsNone(q.end_offset) THEN Assign("end_offset", q.end_offset) ELSE <<>>)
        \o (IF q.highlight THEN Assign("highlight", q.highlight) ELSE <<>>)
        \o (IF q.facets.items # {}
            THEN Assign("facets", Some(FacetFields(order.facets))) ELSE <<>>)
        \o (IF q.date_facets # <<>> THEN Assign("date_facets", Some(q.date_facets)) ELSE <<>>)
        \o (IF Truthy(q.facet_mincount) THEN Assign("facet_mincount", q.facet_mincount)
            ELSE <<>>)
        \o (IF Truthy(q.facet_limit) THEN Assign("facet_limit", q.facet_limit) ELSE <<>>)
        \o (IF NonEmpty(q.facet_field_limit)
            THEN Assign("facet_field_limit", q.facet_field_limit) ELSE <<>>)
        \o (IF NonEmpty(q.facet_prefix) THEN Assign("facet_prefix", q.facet_prefix) ELSE <<>>)
        \o (IF NonEmpty(q.facet_sort) THEN Assign("facet_sort", q.facet_sort) ELSE <<>>)
        \o (IF Truthy(q.facet_pivot_mincount)
            THEN Assign("facet_mincount", q.facet_mincount) ELSE <<>>)
        \o (IF q.query_facets # <<>> THEN Assign("query_facets", Some(q.query_facets))
            ELSE <<>>)
        \o (IF q.pivot_facets.items # {}
            THEN Assign("pivot_facets", Some(FacetFields(order.pivot_facets))) ELSE <<>>)
        \o (IF q.narrow_queries.items # {}
            THEN Assign("narrow_queries",
                        Some([kind |-> "list", items |-> NarrowList(order.narrow_queries)]))
            ELSE <<>>)
        \o (IF ~IsNone(q.dismax) /\ DOMAIN q.dismax.v # {}
            THEN Assign("dismax", q.dismax) ELSE <<>>)
        \o (IF NonEmpty(spelling_query) THEN Assign("spelling_query", spelling_query)
            ELSE <<>>))

\* The arguments search binds: a keyword argument where run passes one, the
\* default of the signature otherwise, and the settings and registry of the backend.
SearchCall(q, kwargs) ==
    [n \in SearchNames |->
        IF n \in DOMAIN kwargs THEN kwargs[n]
        ELSE IF n \in {"include_spelling", "limit_setting", "indexed_models"} THEN q[n]
        ELSE Default(n)]

run(self, q, final_query, spelling_query, order, fq, transport) ==
    LET a == SearchCall(q, RunKwargs(q, spelling_query, order))
        r == search(final_query, a, fq, transport)
    IN IF r.ret.kind = "raise"
       THEN [calls |-> r.calls, log |-> r.log, ret |-> r.ret, query |-> self]
       ELSE LET results == r.ret.value
            IN [calls |-> r.calls, log |-> r.log, ret |-> Returned(None),
                query |-> [_results |-> Some(results.results),
                           _hit_count |-> Some(results.hits),
                           _facet_counts |-> Some(post_process_facets(results)),
                           _spelling_suggestion |->
                               IF "spelling_suggestion" \in DOMAIN results
                               THEN results.spelling_suggestion ELSE None]]

\* Variant: the end offset handed on as it is stored.
RunMltKwargs_passes_end_offset(q) ==
    Assigned(
        Assign("start_offset", Some(q.start_offset))
        \o Assign("result_class", q.result_class)
        \o (IF ~IsNone(q.end_offset) THEN Assign("end_offset", q.end_offset) ELSE <<>>))

\* The keyword arguments run_mlt passes to backend.more_like_this.
RunMltKwargs(q) ==
    Assigned(
        Assign("start_offset", Some(q.start_offset))
        \o Assign("result_class", q.result_class)
        \o (IF ~IsNone(q.end_offset)
            THEN Assign("end_offset", Some(q.end_offset.v - q.start_offset)) ELSE <<>>))

MltCall(q, kwargs) ==
    [n \in MltNames |->
        IF n \in DOMAIN kwargs THEN kwargs[n]
        ELSE IF n \in {"include_spelling", "limit_setting", "indexed_models"} THEN q[n]
        ELSE MltDefault(n)]

\* Variant: the stored results cleared before the source entity is looked for.
run_mlt_resets_first(self, q, additional_query_string, fq, transport) ==
    IF q._more_like_this = FALSE \/ IsNone(q._mlt_instance)
    THEN [calls |-> <<>>, log |-> <<>>, ret |-> Raised("MoreLikeThisError"),
          query |-> [self EXCEPT !._results = Some(<<>>), !._hit_count = Some(0)]]
    ELSE LET r == more_like_this(q._mlt_instance.v, additional_query_string,
                                 MltCall(q, RunMltKwargs(q)), fq, transport)
         IN IF r.ret.kind = "raise"
            THEN [calls |-> r.calls, log |-> r.log, ret |-> r.ret, query |-> self]
            ELSE [calls |-> r.calls, log |-> r.log, ret |-> Returned(None),
                  query |-> [self EXCEPT !._results = Some(r.ret.value.results),
                                         !._hit_count = Some(r.ret.value.hits)]]

run_mlt(self, q, additional_query_string, fq, transport) ==
    IF q._more_like_this = FALSE \/ IsNone(q._mlt_instance)
    THEN [calls |-> <<>>, log |-> <<>>, ret |-> Raised("MoreLikeThisError"), query |-> self]
    ELSE LET r == more_like_this(q._mlt_instance.v, additional_query_string,
                                 MltCall(q, RunMltKwargs(q)), fq, transport)
         IN IF r.ret.kind = "raise"
            THEN [calls |-> r.calls, log |-> r.log, ret |-> r.ret, query |-> self]
            ELSE [calls |-> r.calls, log |-> r.log, ret |-> Returned(None),
                  query |-> [self EXCEPT !._results = Some(r.ret.value.results),
                                         !._hit_count = Some(r.ret.value.hits)]]

\* The inputs of run and run_mlt: the query state as BaseSearchQuery.__init__
\* leaves it, and for every field the other values the query methods store.
QueryDefault(name) ==
    CASE name = "start_offset" -> 0
      [] name \in {"order_by", "date_facets", "query_facets"} -> <<>>
      [] name \in {"facets", "pivot_facets", "narrow_queries"} -> [kind |-> "set", items |-> {}]
      [] name \in {"highlight", "include_spelling", "_more_like_this"} -> FALSE
      [] name = "limit_setting" -> TRUE
      [] name = "indexed_models" -> <<note>>
      [] OTHER -> None

QueryAlternatives(name) ==
    CASE name = "start_offset" -> [i \in 1..MaxOffset |-> i]
      [] name = "order_by" -> <<<<F_price>>, <<<<"-">> \o F_price, F_tag>>>>
      [] name = "facets" ->
            <<[kind |-> "set", items |-> {<<F_state, None, <<>>>>}],
              [kind |-> "set", items |-> {<<F_state, Some(<<"k">>), <<"t">>>>,
                                          <<<<>>, None, <<>>>>}]>>
      [] name = "date_facets" -> <<DateFacet(2, T_day)>>
      [] name = "facet_mincount" -> <<Some(0), Some(2)>>
      [] name = "facet_pivot_mincount" -> <<Some(0), Some(3)>>
      [] name = "query_facets" -> <<<<<<F_tag, <<"a">>>>>>>>
      [] name = "pivot_facets" ->
            <<[kind |-> "set", items |-> {<<Join(<<F_state, F_city>>, <<",">>), None, <<"t">>>>}]>>
      [] name = "narrow_queries" ->
            <<[kind |-> "set", items |-> {<<T_tag_a, <<>>>>}],
              [kind |-> "set", items |-> {<<T_tag_a, <<"t">>>>, <<F_price \o <<":", "1">>, <<>>>>}]>>
      [] name = "indexed_models" -> <<<<>>, <<note, doc>>>>
      [] name = "dismax" -> <<Some(("defType" :> <<"d", "i", "s", "m", "a", "x">>) @@ ("mm" :> 1))>>
      [] OTHER -> Alternatives(name)

RunNames ==
    {"start_offset", "end_offset", "order_by", "highlight", "facets", "date_facets",
     "facet_mincount", "facet_limit", "facet_field_limit", "facet_prefix", "facet_sort",
     "facet_pivot_mincount", "query_facets", "pivot_facets", "narrow_queries", "dismax",
     "result_class", "spelling_query", "include_spelling", "limit_setting", "indexed_models"}

\* The more-like-this flag and source entity of a query state.
MltTargets ==
    {[_more_like_this |-> FALSE, _mlt_instance |-> None],
     [_more_like_this |-> TRUE, _mlt_instance |-> None]}
    \cup {[_more_like_this |-> TRUE,
            _mlt_instance |-> Some([kind |-> "object", model |-> m, pk |-> 1])] :
              m \in InstalledModels}

RECURSIVE PickUpTo(_, _)
PickUpTo(S, n) ==
    IF n = 0 THEN {{}}
    ELSE LET smaller == PickUpTo(S, n - 1)
         IN smaller \cup {sn[1] \cup {sn[2]} : sn \in smaller \X S}

QueryChoices(names) ==
    {c \in [names -> 1..(MaxOffset + 3)] : \A n \in names : c[n] <= Len(QueryAlternatives(n))}

QueryState(names, c) ==
    [n \in RunNames \cup {"_more_like_this", "_mlt_instance"} |-> IF n \in names THEN QueryAlternatives(n)[c[n]] ELSE QueryDefault(n)]

\* build_query(): the query string of the state, never empty.
FinalQueries == {MATCH_ALL}

\* What the read transport does when a run reaches it.
RunTransports ==
    [outcome : TransportErrors]
    \cup {[outcome |-> "ok",
           raw |-> [hits |-> 5,
                    docs |-> <<RawDoc(1, CT_note), RawDoc(2, CT_gone), RawDoc(3, CT_doc)>>]]}

(***************************************************************************)
(* A caller that keeps one narrow_queries set and passes it to search.     *)
(* Of the arguments of search, those that reach the set vary: the offsets,  *)
(* the restriction flag and setting, and the registry.                     *)
(***************************************************************************)

Init ==
    /\ pc = "idle"
    /\ op = [name |-> "none"]
    /\ calls = <<>>
    /\ log = <<>>
    /\ ret = None
    /\ query = [_results |-> None, _hit_count |-> None, _facet_counts |-> None,
                _spelling_suggestion |-> None]
    /\ caller = [put |-> {}, narrow_queries |-> {}]

\* The end of a call that leaves the outcome r and touches neither object.
Finish(name, args, r) ==
    /\ pc' = "done"
    /\ op' = [name |-> name, args |-> args]
    /\ calls' = r.calls
    /\ log' = r.log
    /\ ret' = r.ret
    /\ UNCHANGED <<query, caller>>

Clear ==
    /\ pc = "idle"
    /\ \E models \in SeqsUpTo(InstalledModels, MaxModels), commit \in BOOLEAN,
          delete_outcome \in Outcomes, optimize_outcome \in Outcomes :
          /\ delete_outcome # "ok" => optimize_outcome = "ok"
          /\ Finish("clear",
                    [models |-> models, commit |-> commit,
                     delete_outcome |-> delete_outcome, optimize_outcome |-> optimize_outcome],
                    clear(models, commit, delete_outcome, optimize_outcome))

Update ==
    /\ pc = "idle"
    /\ \E iterable \in Iterables, commit \in BOOLEAN, add_outcome \in Outcomes :
          Finish("update",
                 [iterable |-> iterable, commit |-> commit, add_outcome |-> add_outcome],
                 update(iterable, commit, add_outcome))

Remove ==
    /\ pc = "idle"
    /\ \E obj_or_string \in Removables, commit \in BOOLEAN, delete_outcome \in Outcomes :
          Finish("remove",
                 [obj_or_string |-> obj_or_string, commit |-> commit,
                  delete_outcome |-> delete_outcome],
                 remove(obj_or_string, commit, delete_outcome))

BuildQueryFragment ==
    /\ pc = "idle"
    /\ \E field \in Fields, filter_type \in FilterTypes, value \in Values :
          Finish("build_query_fragment",
                 [field |-> field, filter_type |-> filter_type, value |-> value],
                 [calls |-> <<>>, log |-> <<>>,
                  ret |-> build_query_fragment(field, filter_type, value)])

PostProcessFacets ==
    /\ pc = "idle"
    /\ \E results \in FacetResults :
          Finish("post_process_facets", [results |-> results],
                 [calls |-> <<>>, log |-> <<>>, ret |-> Returned(post_process_facets(results))])

ProcessResults ==
    /\ pc = "idle"
    /\ \E raw_results \in RawResponses, result_class \in ResultClasses,
          indexed_models \in Sites, include_spelling \in BOOLEAN :
          /\ "spellcheck" \notin DOMAIN raw_results => ~include_spelling
          /\ Finish("_process_results",
                    [raw_results |-> raw_results, result_class |-> result_class,
                     indexed_models |-> indexed_models, include_spelling |-> include_spelling],
                    [calls |-> <<>>, log |-> <<>>,
                     ret |-> process_results(raw_results, result_class, indexed_models,
                                             include_spelling)])

Search ==
    /\ pc = "idle"
    /\ \E query_string \in QueryStrings, names \in NamesUpTo(MaxOptions) :
          \E c \in Choices(names) :
             LET a == SearchArguments(names, c)
                 narrow == NarrowQueries(a)
                 reaches == Len(query_string) # 0 /\ narrow.kind # "raise"
                            /\ ~(~IsNone(a.end_offset) /\ IsNone(a.start_offset))
             IN \E fq \in IF reaches /\ ~IsNone(narrow.value)
                           THEN {Some(l) : l \in Listings(narrow.value.v)} ELSE {None},
                   transport \in IF reaches THEN Transports ELSE {[outcome |-> "none"]} :
                   Finish("search",
                          [query_string |-> query_string, a |-> a, transport |-> transport],
                          search(query_string, a, fq, transport))

\* The end of a call of the SearchQuery: r.query is what the object stores.
FinishQuery(name, args, r) ==
    /\ pc' = "done"
    /\ op' = [name |-> name, args |-> args]
    /\ calls' = r.calls
    /\ log' = r.log
    /\ ret' = r.ret
    /\ query' = r.query
    /\ UNCHANGED caller

MoreLikeThis ==
    /\ pc = "idle"
    /\ \E model_instance \in [kind : {"object"}, model : InstalledModels, pk : {1}],
          additional_query_string \in QueryStrings,
          names \in PickUpTo(MltNames, MaxOptions) :
          \E c \in Choices(names) :
             LET a == [n \in MltNames |->
                          IF n \in names THEN Alternatives(n)[c[n]] ELSE MltDefault(n)]
                 narrow_queries == MltNarrowQueries(additional_query_string, a)
                 reaches == get_index(model_instance.model, a.indexed_models).kind = "return"
             IN \E fq \in IF narrow_queries # {}
                          THEN {Some(l) : l \in Listings([kind |-> "set",
                                                          items |-> narrow_queries])}
                          ELSE {None},
                   transport \in IF reaches THEN Transports ELSE {[outcome |-> "none"]} :
                   Finish("more_like_this",
                          [model_instance |-> model_instance,
                           additional_query_string |-> additional_query_string,
                           a |-> a, transport |-> transport],
                          more_like_this(model_instance, additional_query_string, a, fq,
                                         transport))

Run ==
    /\ pc = "idle"
    /\ \E final_query \in FinalQueries, names \in PickUpTo(RunNames, MaxQueryOptions) :
          \E c \in QueryChoices(names) :
             LET q == QueryState(names, c)
             IN \E facets \in Listings(q.facets), pivot_facets \in Listings(q.pivot_facets),
                   narrow_queries \in Listings(q.narrow_queries) :
                   LET order == [facets |-> facets, pivot_facets |-> pivot_facets,
                                 narrow_queries |-> narrow_queries]
                       a == SearchCall(q, RunKwargs(q, q.spelling_query, order))
                       narrow == NarrowQueries(a)
                       reaches == narrow.kind # "raise"
                   IN \E fq \in IF reaches /\ ~IsNone(narrow.value)
                                THEN {Some(l) : l \in Listings(narrow.value.v)} ELSE {None},
                         transport \in IF reaches THEN RunTransports
                                       ELSE {[outcome |-> "none"]} :
                         FinishQuery("run",
                                     [q |-> q, final_query |-> final_query, order |-> order,
                                      transport |-> transport, self |-> query],
                                     run(query, q, final_query, q.spelling_query, order, fq,
                                         transport))

RunMlt ==
    /\ pc = "idle"
    /\ \E additional_query_string \in FinalQueries, target \in MltTargets,
          names \in PickUpTo({"start_offset", "end_offset", "result_class", "limit_setting",
                              "indexed_models"}, MaxQueryOptions) :
          \E c \in QueryChoices(names) :
             LET q == [QueryState(names, c) EXCEPT
                          !._more_like_this = target._more_like_this,
                          !._mlt_instance = target._mlt_instance]
                 a == MltCall(q, RunMltKwargs(q))
                 narrow_queries == MltNarrowQueries(additional_query_string, a)
                 reaches == /\ q._more_like_this /\ ~IsNone(q._mlt_instance)
                            /\ get_index(q._mlt_instance.v.model, q.indexed_models).kind
                                   = "return"
             IN \E fq \in {Some(l) : l \in Listings([kind |-> "set", items |-> narrow_queries])},
                   transport \in IF reaches THEN RunTransports ELSE {[outcome |-> "none"]} :
                   FinishQuery("run_mlt",
                               [q |-> q, additional_query_string |-> additional_query_string,
                                transport |-> transport, self |-> query],
                               run_mlt(query, q, additional_query_string, fq, transport))

\* The caller puts a clause into the set it keeps.
AddNarrowQuery ==
    /\ pc = "idle"
    /\ \E clause \in {T_tag_a} \ caller.put :
          caller' = [put |-> caller.put \cup {clause},
                     narrow_queries |-> caller.narrow_queries \cup {clause}]
    /\ UNCHANGED <<pc, op, calls, log, ret, query>>

\* search called with the set the caller keeps.
SearchWithKeptSet ==
    /\ pc = "idle"
    /\ \E query_string \in QueryStrings,
          names \in PickUpTo({"limit_to_registered_models", "limit_setting", "indexed_models",
                              "start_offset", "end_offset"}, MaxOptions) :
          \E c \in Choices(names) :
             LET a == [SearchArguments(names, c) EXCEPT
                          !.narrow_queries = Some([kind |-> "set",
                                                   items |-> caller.narrow_queries])]
                 narrow == NarrowQueries(a)
                 reaches == Len(query_string) # 0
                            /\ ~(~IsNone(a.end_offset) /\ IsNone(a.start_offset))
             IN \E fq \in IF reaches THEN {Some(l) : l \in Listings(narrow.value.v)}
                          ELSE {None},
                   transport \in IF reaches THEN Transports ELSE {[outcome |-> "none"]} :
                   LET done == search(query_string, a, fq, transport)
                   IN /\ pc' = "done"
                      /\ op' = [name |-> "search",
                                args |-> [query_string |-> query_string, a |-> a,
                                          transport |-> transport]]
                      /\ calls' = done.calls
                      /\ log' = done.log
                      /\ ret' = done.ret
                      /\ caller' = [caller EXCEPT
                                       !.narrow_queries = IF reaches THEN narrow.value.v.items
                                                          ELSE @]
                      /\ UNCHANGED query

Return ==
    /\ pc = "done"
    /\ pc' = "idle"
    /\ op' = [name |-> "none"]
    /\ calls' = <<>>
    /\ log' = <<>>
    /\ ret' = None
    /\ UNCHANGED <<query, caller>>

Next ==
    \/ Update
    \/ Remove
    \/ Clear
    \/ BuildQueryFragment
    \/ PostProcessFacets
    \/ ProcessResults
    \/ Search
    \/ MoreLikeThis
    \/ Return

Spec == Init /\ [][Next]_vars

\* One SearchQuery, run again and again.
QueryNext ==
    \/ Run
    \/ RunMlt
    \/ Return

QuerySpec == Init /\ [][QueryNext]_vars

\* One caller searching again and again with the set it keeps.
CallerNext ==
    \/ AddNarrowQuery
    \/ SearchWithKeptSet
    \/ Return

CallerSpec == Init /\ [][CallerNext]_vars

(***************************************************************************)
(* Properties.                                                             *)
(***************************************************************************)
RECURSIVE JoinStr(_, _)
JoinStr(parts, sep) ==
    IF parts = <<>> THEN ""
    ELSE IF Len(parts) = 1 THEN parts[1]
    ELSE parts[1] \o sep \o JoinStr(Tail(parts), sep)

Called(name) == pc = "done" /\ op.name = name

\* C1: a search whose query string is empty returns exactly {results: [], hits: 0},
\* whatever the other arguments, and makes no call of the read transport.
C1_EmptyQueryShortCircuits ==
    (Called("search") /\ Len(op.args.query_string) = 0) =>
        /\ ret = Returned([results |-> <<>>, hits |-> 0])
        /\ \A i \in DOMAIN calls : ~(calls[i].conn = "conn_slave" /\ calls[i].method = "search")

C1_Witness ==
    /\ Called("search") /\ Len(op.args.query_string) = 0
    /\ ~IsNone(op.args.a.date_facets) /\ op.args.a.highlight
    /\ calls = <<>> /\ ret.kind = "return"

\* C2: when the read transport raises IOError or SolrError during a search with a
\* non-empty query string, search returns a result with hits = 0 and no results
\* instead of raising.
C2_TransportFailureYieldsEmptyResult ==
    (Called("search") /\ Len(op.args.query_string) # 0
     /\ op.args.transport.outcome \in TransportErrors) =>
        /\ ret.kind = "return"
        /\ ret.value.hits = 0
        /\ ret.value.results = <<>>
        /\ DOMAIN ret.value = {"results", "hits", "facets", "spelling_suggestion"}

C2_Witness ==
    /\ Called("search") /\ Len(op.args.query_string) # 0
    /\ op.args.transport.outcome = "SolrError"
    /\ Len(calls) = 1 /\ calls[1].method = "search"
    /\ ret.kind = "return" /\ ret.value.hits = 0

\* The documents of a raw response whose entity type is registered, by the text of
\* their type tag.
RegisteredTags(indexed_models) ==
    {Str(m.app_label) \o "." \o Str(m.module_name) : m \in indexed_models}

IsRegisteredDoc(d, indexed_models) == Str(d.django_ct.text) \in RegisteredTags(indexed_models)

WellFormedDocs(docs) ==
    \A i \in DOMAIN docs :
        Cardinality({j \in DOMAIN docs[i].django_ct.text : docs[i].django_ct.text[j] = "."}) = 1

\* C3: _process_results on a raw response with count N of which U documents carry
\* an entity type that is not registered returns hits = N - U and one result per
\* registered document, in the order of the raw documents.
C3_HitsDecrementedPerUnregisteredDoc ==
    (Called("_process_results") /\ WellFormedDocs(op.args.raw_results.docs)) =>
        LET raw == op.args.raw_results
            registered(d) == IsRegisteredDoc(d, op.args.indexed_models)
            U == Cardinality({i \in DOMAIN raw.docs : ~registered(raw.docs[i])})
            kept == SelectSeq(raw.docs, registered)
        IN /\ ret.kind = "return"
           /\ ret.value.hits = raw.hits - U
           /\ Len(ret.value.results) = Len(raw.docs) - U
           /\ Len(ret.value.results) = Len(kept)
           /\ \A i \in DOMAIN kept : ret.value.results[i].pk = kept[i].django_id

C3_Witness ==
    /\ Called("_process_results")
    /\ Len(op.args.raw_results.docs) = 3
    /\ op.args.raw_results.hits = 4
    /\ Str(op.args.raw_results.docs[2].django_ct.text) = "app.gone"
    /\ ret.kind = "return" /\ ret.value.hits = 3 /\ Len(ret.value.results) = 2
    /\ ret.value.results[2].pk = PyInt(3)

\* C4: clear() with no entity types issues one delete of q = '*:*' on the write
\* transport and then one optimize; optimize never precedes the delete; when the
\* delete fails no optimize is issued; no error reaches the caller.
C4_ClearDeletesThenOptimizes ==
    (Called("clear") /\ op.args.models = <<>>) =>
        /\ ret = Returned(None)
        /\ Len(calls) >= 1
        /\ calls[1].conn = "conn" /\ calls[1].method = "delete" /\ Str(calls[1].q) = "*:*"
        /\ Cardinality({i \in DOMAIN calls : calls[i].method = "delete"}) = 1
        /\ \A i \in DOMAIN calls :
              calls[i].method = "optimize" =>
                  \E j \in 1..(i - 1) : calls[j].method = "delete"
        /\ op.args.delete_outcome = "ok" =>
              /\ Len(calls) = 2
              /\ calls[2] = [conn |-> "conn", method |-> "optimize"]
        /\ op.args.delete_outcome # "ok" => Len(calls) = 1

C4_Witness ==
    /\ Called("clear") /\ op.args.models = <<>>
    /\ op.args.delete_outcome = "IOError"
    /\ Len(calls) = 1 /\ calls[1].method = "delete"
    /\ Len(log) = 1 /\ ret = Returned(None)

\* C5: in update, an entity whose preparation fails is dropped and the single add
\* call carries the prepared document of every entity that does not fail,
\* those after the failing one included.
C5_PreparationFailureIsPerItem ==
    (Called("update")
     /\ (\E i \in DOMAIN op.args.iterable : op.args.iterable[i].prepare = "UnicodeDecodeError")
     /\ (\A j \in DOMAIN op.args.iterable : op.args.iterable[j].prepare # "ValueError")) =>
        LET prepared(o) == o.prepare = "ok"
            survivors == SelectSeq(op.args.iterable, prepared)
        IN /\ ret = Returned(None)
           /\ Len(survivors) > 0 =>
                 /\ Len(calls) = 1
                 /\ calls[1].method = "add"
                 /\ calls[1].docs = [i \in DOMAIN survivors |-> [id |-> survivors[i].id]]

\* The clause shape of the operator table, on rendered texts.
ClauseShape(filter_type, F, V) ==
    CASE filter_type = "exact" -> F \o ":" \o V
      [] filter_type = "gt" -> F \o ":{" \o V \o " TO *}"
      [] filter_type = "gte" -> F \o ":[" \o V \o " TO *]"
      [] filter_type = "lt" -> F \o ":{* TO " \o V \o "}"
      [] filter_type = "lte" -> F \o ":[* TO " \o V \o "]"
      [] filter_type = "startswith" -> F \o ":" \o V \o "*"

IsScalar(value) == value.kind \in {"str", "int", "bool"}

QuotedIfSpaced(text) == IF Contains(text, " ") THEN "\"" \o Str(text) \o "\"" ELSE Str(text)

ReturnsText(t) == ret.kind = "return" /\ ret.value.kind = "str" /\ Str(ret.value.text) = t

\* C6: on a field other than 'content', with physical name F, a scalar value V
\* compiles to the clause of the operator table (V in double quotes when it holds
\* whitespace) and range over bounds (A, B) to F:[A TO B] with unquoted bounds; on
\* 'content' the clause is the bare, possibly quoted, value.
C6_ClauseShapes ==
    Called("build_query_fragment") =>
        LET field == op.args.field
            filter_type == op.args.filter_type
            value == op.args.value
            F == Str(get_index_fieldname(field))
        IN /\ (field # F_content /\ IsScalar(value) /\ filter_type \in FilterTypeKeys) =>
                 ReturnsText(ClauseShape(filter_type, F, QuotedIfSpaced(from_python(value).text)))
           /\ (field # F_content /\ filter_type = "range" /\ value.kind \in {"list", "tuple"}
               /\ Len(value.items) = 2) =>
                 ReturnsText(F \o ":[" \o Str(from_python(value.items[1]).text) \o " TO "
                             \o Str(from_python(value.items[2]).text) \o "]")
           /\ (field = F_content /\ IsScalar(value)) =>
                 ReturnsText(QuotedIfSpaced(from_python(value).text))

SupportedOperators == {"exact", "gt", "gte", "lt", "lte", "startswith", "in", "range"}

\* A tuple of other than one item that holds ' ' cannot be formatted by '"%s"'.
QuotingFails(value) ==
    value.kind = "tuple" /\ Len(value.items) # 1
    /\ (\E i \in DOMAIN value.items : value.items[i] = PyStr(<<" ">>))

C8_InIsDisjunctionOverElements ==
    (Called("build_query_fragment") /\ op.args.field # F_content
     /\ op.args.filter_type = "in" /\ op.args.value.kind \in {"list", "tuple"}
     /\ Len(op.args.value.items) >= 1) =>
        LET F == Str(get_index_fieldname(op.args.field))
            items == op.args.value.items
            terms == [i \in DOMAIN items |->
                         F \o ":\"" \o Str(from_python(items[i]).text) \o "\""]
        IN ReturnsText("(" \o JoinStr(terms, " OR ") \o ")")

\* C9: post_process_facets stores the values of a pivot facet under the key made
\* of the facet names of the path's components when every component has one, and
\* under the unchanged raw path when some component has none.
C9_PivotKeyRewrittenOrRaw ==
    (Called("post_process_facets") /\ "facets" \in DOMAIN op.args.results) =>
        LET items == op.args.results.facets.pivots
            expected(key) ==
                LET path == Split(key, ",")
                IN IF \A i \in DOMAIN path : HasFacetName(path[i])
                   THEN Join([i \in DOMAIN path |-> field_data[path[i]].facet_for_name], <<",">>)
                   ELSE key
        IN /\ ret.kind = "return"
           /\ \A i \in DOMAIN items :
                 /\ expected(items[i][1]) \in DOMAIN ret.value.pivots
                 /\ ret.value.pivots[expected(items[i][1])] = items[i][2]

UnitInCapitals(gap_by) ==
    CASE Str(gap_by) = "day" -> "DAY"
      [] Str(gap_by) = "month" -> "MONTH"

\* C10: for a date facet with gap amount n and unit u, search sends the gap
\* '+' n UPPER(u) ('S' if n # 1) '/' UPPER(u), the unit after the slash never
\* pluralised, and facet.date.other = 'none' whenever date_facets is given.
C10_DateFacetGap ==
    (Called("search") /\ calls # <<>> /\ ~IsNone(op.args.a.date_facets)) =>
        LET kwargs == calls[1].kwargs
            items == op.args.a.date_facets.v
        IN /\ Str(kwargs["facet.date.other"]) = "none"
           /\ \A i \in DOMAIN items :
                 LET n == items[i][2].gap_amount
                     U == UnitInCapitals(items[i][2].gap_by)
                     gap == Str(kwargs["f." \o items[i][1] \o ".facet.date.gap"])
                 IN /\ gap = "+" \o ToString(n) \o U \o (IF n # 1 THEN "S" ELSE "") \o "/" \o U
                    /\ (n = 1 /\ U = "DAY") => gap = "+1DAY/DAY"
                    /\ (n = 3 /\ U = "DAY") => gap = "+3DAYS/DAY"

C10_Witness ==
    /\ Called("search") /\ calls # <<>> /\ ~IsNone(op.args.a.date_facets)
    /\ op.args.a.date_facets.v # <<>>
    /\ op.args.a.date_facets.v[1][2].gap_amount = 3
    /\ Str(calls[1].kwargs["f.pub_date.facet.date.gap"]) = "+3DAYS/DAY"
    /\ Str(calls[1].kwargs["facet.date.other"]) = "none"

\* The calls of the read transport's search endpoint made by the call just finished.
SearchRequests == {i \in DOMAIN calls : calls[i].conn = "conn_slave" /\ calls[i].method = "search"}

\* A narrowing clause of the query state as the spec renders it.
RenderedNarrow(pair) ==
    IF pair[2] # <<>> THEN "{!tag=" \o Str(pair[2]) \o "}" \o Str(pair[1]) ELSE Str(pair[1])

\* The clause TYPE:(type1 OR type2 ...) over the registered entity types.
TypeClause(indexed_models) ==
    "django_ct:("
    \o JoinStr([i \in 1..Len(indexed_models) |->
                   Str(indexed_models[i].app_label) \o "." \o Str(indexed_models[i].module_name)],
               " OR ")
    \o ")"

\* C11: a run of a query state with at least one narrowing clause, with result
\* restriction enabled and at least one entity type registered, completes without
\* error, and the fq parameter it sends holds every narrowing clause, prefixed with
\* {!tag=T} exactly when its tag is non-empty, and the clause over the registered types.
C11_RunSendsNarrowingAndTypeClauses ==
    (Called("run") /\ op.args.q.narrow_queries.items # {} /\ op.args.q.limit_setting
     /\ Len(op.args.q.indexed_models) > 0) =>
        /\ ret.kind = "return"
        /\ SearchRequests # {}
        /\ \A i \in SearchRequests :
              /\ "fq" \in DOMAIN calls[i].kwargs
              /\ {Str(calls[i].kwargs.fq[j]) : j \in DOMAIN calls[i].kwargs.fq}
                    = {RenderedNarrow(pair) : pair \in op.args.q.narrow_queries.items}
                      \cup {TypeClause(op.args.q.indexed_models)}

\* The facet options of a query state that are configured.
FacetOptionsSet(q) ==
    {n \in {"facets", "pivot_facets"} : q[n].items # {}}
    \cup {n \in {"date_facets", "query_facets"} : q[n] # <<>>}
    \cup {n \in {"facet_mincount", "facet_limit", "facet_pivot_mincount"} : Truthy(q[n])}
    \cup {n \in {"facet_field_limit", "facet_prefix", "facet_sort"} : NonEmpty(q[n])}

\* C12: a run of a query state with any facet option configured sends facet = 'on';
\* when facet_pivot_mincount is configured the request also carries that value.
C12_AnyFacetOptionTurnsFacetingOn ==
    (Called("run") /\ FacetOptionsSet(op.args.q) # {}) =>
        \A i \in SearchRequests :
            /\ "facet" \in DOMAIN calls[i].kwargs
            /\ calls[i].kwargs.facet = T_on
            /\ Truthy(op.args.q.facet_pivot_mincount) =>
                  /\ "facet.pivot_mincount" \in DOMAIN calls[i].kwargs
                  /\ calls[i].kwargs["facet.pivot_mincount"] = op.args.q.facet_pivot_mincount.v

\* The calls of the read transport's more_like_this endpoint made by the call just finished.
MltRequests ==
    {i \in DOMAIN calls : calls[i].conn = "conn_slave" /\ calls[i].method = "more_like_this"}

NoSimilarityTarget(q) == ~q._more_like_this \/ IsNone(q._mlt_instance)

\* C13: run_mlt on a query state whose more-like-this flag is false or whose target
\* instance is absent raises the missing-similarity-target error, calls the
\* more_like_this endpoint zero times and leaves the stored results and hit count as
\* they were.
C13_RunMltWithoutTargetFailsAtOnce ==
    (Called("run_mlt") /\ NoSimilarityTarget(op.args.q)) =>
        /\ ret = Raised("MoreLikeThisError")
        /\ MltRequests = {}
        /\ query._results = op.args.self._results
        /\ query._hit_count = op.args.self._hit_count

C13_Witness ==
    /\ Called("run_mlt") /\ NoSimilarityTarget(op.args.q)
    /\ op.args.q._more_like_this
    /\ ~IsNone(op.args.self._results) /\ Len(op.args.self._results.v) > 0
    /\ ret.kind = "raise"

\* The offsets of a query state: start >= 0, and end >= start when an end is present.
OffsetsInOrder(q) ==
    q.start_offset >= 0 /\ (~IsNone(q.end_offset) => q.end_offset.v >= q.start_offset)

Paginated(request, q) ==
    /\ "start" \in DOMAIN request.kwargs /\ request.kwargs.start = q.start_offset
    /\ IF IsNone(q.end_offset) THEN "rows" \notin DOMAIN request.kwargs
       ELSE /\ "rows" \in DOMAIN request.kwargs
            /\ request.kwargs.rows = q.end_offset.v - q.start_offset
            /\ request.kwargs.rows >= 0

\* C14: with start offset s >= 0 and end offset e >= s, run sends start = s and
\* rows = e - s to the search endpoint and run_mlt sends the same to the
\* more_like_this endpoint; without an end offset no rows parameter is sent; rows is
\* never negative.
C14_RowsIsEndMinusStart ==
    /\ (Called("run") /\ OffsetsInOrder(op.args.q)) =>
           \A i \in SearchRequests : Paginated(calls[i], op.args.q)
    /\ (Called("run_mlt") /\ OffsetsInOrder(op.args.q)) =>
           \A i \in MltRequests : Paginated(calls[i], op.args.q)

C14_Witness ==
    /\ Called("run_mlt")
    /\ op.args.q.start_offset > 0
    /\ ~IsNone(op.args.q.end_offset) /\ op.args.q.end_offset.v > op.args.q.start_offset
    /\ \E i \in MltRequests : calls[i].kwargs.rows = op.args.q.end_offset.v - op.args.q.start_offset

\* C15: search leaves the narrow_queries set of its caller unchanged: after any
\* sequence of search calls that pass the same set, the set holds exactly the clauses
\* the caller put into it.
C15_SearchLeavesNarrowQueriesUnchanged ==
    caller.narrow_queries = caller.put


====
